---- MODULE Spec2Model ----
(***************************************************************************)
(* Model of students/DennisLee/lesson10/mailroom.py: the Donor and         *)
(* DonorCollection classes.                                                *)
(*                                                                         *)
(* Representation.                                                         *)
(*   - A dollar amount is an integer number of mills (1/1000 dollar), so   *)
(*     0.01 is 10 and the validation threshold 0.005 is 5.  A factor is an *)
(*     integer number of tenths (1.0 is 10).  A product amount*factor is   *)
(*     therefore a number of 1/10000 dollars.                              *)
(*   - floor and ceiling are pairs <<thousands of dollars, mills>>, so the *)
(*     default ceiling 1.0e12 is <<1000000000, 0>>.                        *)
(*   - A name is a sequence of one-character strings; " " is whitespace.   *)
(*   - Python objects live on heaps: objs holds the Donor objects, lists   *)
(*     holds the list objects, colls the DonorCollection objects; a        *)
(*     reference is an index.  A dict is a sequence of [key, ref] entries  *)
(*     in insertion order.                                                 *)
(*   - An amount argument is a sum: a number or a list/tuple of amounts.   *)
(*   - last records the call just made (its arguments, the error raised,   *)
(*     "" when none, and what it returned); calls counts the calls.        *)
(***************************************************************************)
EXTENDS Integers, Sequences, FiniteSets, TLC

VARIABLES colls, objs, lists, cwd, dirs, files, last, calls

vars == <<colls, objs, lists, cwd, dirs, files, last, calls>>

\* number of calls a caller makes in one run
MaxCalls == 3

----------------------------------------------------------------------------
(* Values *)

\* the whitespace character
Space == " "

\* an amount argument: a number of mills, or a list/tuple of amounts
Num(v) == [kind |-> "num", v |-> v, items |-> <<>>]
Lst(s) == [kind |-> "seq", v |-> 0, items |-> s]

\* str.strip(): drop leading and trailing whitespace
RECURSIVE LStrip(_)
LStrip(s) == IF s # <<>> /\ Head(s) = Space THEN LStrip(Tail(s)) ELSE s

RECURSIVE RStrip(_)
RStrip(s) ==
    IF s # <<>> /\ s[Len(s)] = Space THEN RStrip(SubSeq(s, 1, Len(s) - 1)) ELSE s

Strip(s) == RStrip(LStrip(s))

\* `not name or not name.strip()`
IsBlank(name) == name = <<>> \/ Strip(name) = <<>>

\* `not amount`: zero, or an empty list/tuple
Falsy(amount) ==
    IF amount.kind = "num" THEN amount.v = 0 ELSE amount.items = <<>>

\* 0.005 in mills: `if amount < 0.005`
MinAmount == 5

\* Ties of round(x, 2) that go up, because the double nearest to the decimal
\* lies above it: 0.005, 0.025, 0.035, 0.055, 0.065 (0.015, 0.045 and 0.075 go
\* down).  In 1/10000 dollars; the table covers x < 800.
TiesUp == {50, 250, 350, 550, 650}

\* round(x, 2) of x given in 1/10000 dollars; the result is in mills
Round2(x) ==
    LET q == x \div 100
        r == x % 100
    IN  IF r < 50 THEN q * 10
        ELSE IF r > 50 THEN (q + 1) * 10
        ELSE IF x \in TiesUp THEN (q + 1) * 10
        ELSE q * 10

\* a float amount as <<thousands of dollars, mills>>
Money(mills) == <<mills \div 1000000, mills % 1000000>>

\* a <= b on such pairs
Leq(a, b) == a[1] < b[1] \/ (a[1] = b[1] /\ a[2] <= b[2])

\* what DonorCollection.__init__ sets: 1.0, 0.0 and 1.0e12
DefaultFactor == 10
DefaultFloor == Money(0)
DefaultCeiling == <<1000000000, 0>>

----------------------------------------------------------------------------
(* Donor *)

RECURSIVE DonorAdd(_, _)
RECURSIVE DonorAddEach(_, _, _)

\* Donor.add on the contents of self.donations: the contents afterwards and
\* the error raised ("" when none).  The list is mutated in place, so what was
\* appended before a raise stays appended.
DonorAdd(donations, amount) ==
    IF amount.kind = "seq"
    THEN DonorAddEach([donations |-> donations, err |-> ""], amount.items, 1)
    ELSE IF amount.v < MinAmount
         THEN [donations |-> donations, err |-> "ValueError"]
         ELSE [donations |-> Append(donations, Round2(amount.v * 10)),
               err |-> ""]

\* DonorAddEach gone wrong: the items are taken last to first
RECURSIVE DonorAddEachReversed(_, _, _)
DonorAddEachReversed(acc, items, i) ==
    IF i > Len(items) \/ acc.err # "" THEN acc
    ELSE DonorAddEachReversed(DonorAdd(acc.donations, items[Len(items) + 1 - i]),
                              items, i + 1)

\* `for i in amount: self.add(i)`, from item i on; a raise ends the loop
DonorAddEach(acc, items, i) ==
    IF i > Len(items) \/ acc.err # "" THEN acc
    ELSE DonorAddEach(DonorAdd(acc.donations, items[i]), items, i + 1)

\* Donor.__init__: the name and the contents of the donations list of the new
\* object, or the error raised
DonorInit(name, amount) ==
    IF IsBlank(name) THEN [err |-> "ValueError", name |-> <<>>, donations |-> <<>>]
    ELSE IF Falsy(amount)
         THEN [err |-> "ValueError", name |-> <<>>, donations |-> <<>>]
         ELSE [name |-> Strip(name)] @@ DonorAdd(<<>>, amount)

\* The objects Donor.__init__ leaves on the heap w, r being what DonorInit
\* gives: a new list object and a new Donor object.  When __init__ raises, the
\* half-built object is unreachable and is not kept.
Allocate(w, r) ==
    IF r.err # "" THEN [w |-> w, err |-> r.err, ret |-> 0]
    ELSE [w |-> [w EXCEPT !.lists = Append(@, r.donations),
                          !.objs = Append(@, [name |-> r.name,
                                              donations |-> Len(w.lists) + 1])],
          err |-> "",
          ret |-> Len(w.objs) + 1]

\* Donor(name, amount)
NewDonor(w, name, amount) == Allocate(w, DonorInit(name, amount))

\* Donor.donations, dereferenced
Donations(w, d) == w.lists[w.objs[d].donations]

\* Donor.gifts
Gifts(w, d) == Len(Donations(w, d))

\* Donor.form_letter (a property, so index is always -1): the fields the
\* template is filled with, or IndexError when there is no gift
FormLetter(w, d) ==
    IF Gifts(w, d) = 0
    THEN [err |-> "IndexError", text |-> <<>>]
    ELSE [err |-> "",
          text |-> <<w.objs[d].name, Donations(w, d)[Gifts(w, d)],
                     IF Gifts(w, d) > 1 THEN <<Gifts(w, d)>> ELSE <<>>>>]

----------------------------------------------------------------------------
(* DonorCollection *)

\* DonorCollection.__init__
NewCollection ==
    [donors |-> <<>>, factor |-> DefaultFactor, floor |-> DefaultFloor,
     ceiling |-> DefaultCeiling]

\* position of key in a dict, 0 when absent
Find(donors, key) ==
    IF \E i \in 1..Len(donors) : donors[i].key = key
    THEN CHOOSE i \in 1..Len(donors) : donors[i].key = key
    ELSE 0

\* self.donors[key], a reference to a Donor object
DonorAt(w, c, key) == w.colls[c].donors[Find(w.colls[c].donors, key)].ref

\* `self.donors[clean_name].add(amount)`: the list object l is updated in place
AddToDonor(w, l, amount) ==
    LET r == DonorAdd(w.lists[l], amount)
    IN  [w |-> [w EXCEPT !.lists[l] = r.donations], err |-> r.err, ret |-> 0]

\* `self.donors[clean_name] = Donor(clean_name, amount)`, d being what
\* Donor(clean_name, amount) gave on the heap w
InsertDonor(w, c, clean_name, d) ==
    IF d.err # "" THEN [w |-> w, err |-> d.err, ret |-> 0]
    ELSE [w |-> [d.w EXCEPT !.colls[c].donors =
                     Append(@, [key |-> clean_name, ref |-> d.ret])],
          err |-> "", ret |-> 0]

\* CollectionAdd gone wrong: the name is used as given, not trimmed
CollectionAddRawName(w, c, name, amount) ==
    IF IsBlank(name) THEN [w |-> w, err |-> "ValueError", ret |-> 0]
    ELSE IF Find(w.colls[c].donors, name) > 0
         THEN AddToDonor(w, w.objs[DonorAt(w, c, name)].donations, amount)
         ELSE InsertDonor(w, c, name, NewDonor(w, name, amount))

\* DonorCollection.add
CollectionAdd(w, c, name, amount) ==
    IF IsBlank(name) THEN [w |-> w, err |-> "ValueError", ret |-> 0]
    ELSE LET clean_name == Strip(name)
         IN  IF Find(w.colls[c].donors, clean_name) > 0
             THEN AddToDonor(w, w.objs[DonorAt(w, c, clean_name)].donations, amount)
             ELSE InsertDonor(w, c, clean_name, NewDonor(w, clean_name, amount))

\* DonorCollection.__getitem__: key.str tells a string from any other object
GetItem(w, c, key) ==
    IF ~key.str THEN [err |-> "TypeError", ret |-> 0]
    ELSE IF Find(w.colls[c].donors, Strip(key.s)) = 0
         THEN [err |-> "KeyError", ret |-> 0]
         ELSE [err |-> "", ret |-> DonorAt(w, c, Strip(key.s))]

\* The projection pipeline threads p = [w, err, xs]: the heap, the error
\* raised so far and the tuples built so far.

\* the tuple the lambda of projector's first map builds for key x, d being
\* what Donor(x, 0.01) gave: the donor name, the new Donor object, and the old
\* donation list (the list object itself, not a copy)
EntryTuple(p, c, x, d) ==
    IF d.err # "" THEN [p EXCEPT !.err = d.err]
    ELSE [w |-> d.w, err |-> "",
          xs |-> Append(p.xs, [name |-> x, donor |-> d.ret,
                               gifts |-> p.w.objs[DonorAt(p.w, c, x)].donations])]

\* ProjectorEntry gone wrong: the tuple holds the old Donor object, no new one
ProjectorEntryShared(p, c, x) ==
    IF p.err # "" THEN p
    ELSE [p EXCEPT !.xs = Append(@, [name |-> x, donor |-> DonorAt(p.w, c, x),
                                     gifts |-> p.w.objs[DonorAt(p.w, c, x)].donations])]

\* the lambda of projector's first map, applied to key x
ProjectorEntry(p, c, x) ==
    IF p.err # "" THEN p
    ELSE EntryTuple(p, c, x, NewDonor(p.w, x, Num(10)))

\* `self.floor <= y <= self.ceiling`
InWindow(w, c, y) ==
    /\ Leq(w.colls[c].floor, Money(y))
    /\ Leq(Money(y), w.colls[c].ceiling)

\* FilterMapper gone wrong: a gift equal to floor is dropped
FilterMapperExclusive(p, c, x) ==
    LET keep(y) == InWindow(p.w, c, y) /\ Money(y) # p.w.colls[c].floor
    IN  [p EXCEPT !.w.lists = Append(@, SelectSeq(p.w.lists[x.gifts], keep)),
                  !.xs = Append(@, [x EXCEPT !.gifts = Len(p.w.lists) + 1])]

\* FilterMapper gone wrong: the old list is filtered in place
FilterMapperInPlace(p, c, x) ==
    LET keep(y) == InWindow(p.w, c, y)
    IN  [p EXCEPT !.w.lists[x.gifts] = SelectSeq(@, keep),
                  !.xs = Append(@, x)]

\* DonorCollection.filter_mapper: the third member becomes a new list of the
\* old gifts y with floor <= y <= ceiling
FilterMapper(p, c, x) ==
    LET keep(y) == InWindow(p.w, c, y)
    IN  [p EXCEPT !.w.lists = Append(@, SelectSeq(p.w.lists[x.gifts], keep)),
                  !.xs = Append(@, [x EXCEPT !.gifts = Len(p.w.lists) + 1])]

\* MultiplyMapper gone wrong: the scaled gifts are appended to the new Donor's
\* list, after the dummy gift
MultiplyMapperExtend(p, c, x) ==
    [p EXCEPT !.w.lists[p.w.objs[x.donor].donations] =
                  @ \o [i \in 1..Len(p.w.lists[x.gifts]) |->
                           Round2(p.w.lists[x.gifts][i] * p.w.colls[c].factor)],
              !.xs = Append(@, [key |-> x.name, ref |-> x.donor])]

\* DonorCollection.multiply_mapper: the new Donor's donations become a new list
\* of the gifts times factor, each rounded to cents; the result is the pair
\* (name, Donor)
MultiplyMapper(p, c, x) ==
    [p EXCEPT !.w.lists =
                  Append(@, [i \in 1..Len(p.w.lists[x.gifts]) |->
                                Round2(p.w.lists[x.gifts][i] * p.w.colls[c].factor)]),
              !.w.objs[x.donor].donations = Len(p.w.lists) + 1,
              !.xs = Append(@, [key |-> x.name, ref |-> x.donor])]

\* list(map(lambda, list(self.donors))): one tuple per key, in dict order
MapEntries(p, c, keys) ==
    LET F[i \in 0..Len(keys)] ==
            IF i = 0 THEN p ELSE ProjectorEntry(F[i - 1], c, keys[i])
    IN  F[Len(keys)]

\* list(map(self.filter_mapper, ...))
MapFilter(p, c) ==
    LET F[i \in 0..Len(p.xs)] ==
            IF i = 0 THEN [p EXCEPT !.xs = <<>>]
            ELSE FilterMapper(F[i - 1], c, p.xs[i])
    IN  IF p.err # "" THEN p ELSE F[Len(p.xs)]

\* map(self.multiply_mapper, ...), consumed by dict()
MapMultiply(p, c) ==
    LET F[i \in 0..Len(p.xs)] ==
            IF i = 0 THEN [p EXCEPT !.xs = <<>>]
            ELSE MultiplyMapper(F[i - 1], c, p.xs[i])
    IN  IF p.err # "" THEN p ELSE F[Len(p.xs)]

\* dict(pairs): a later pair with a key already present replaces its value
DictOf(pairs) ==
    LET F[i \in 0..Len(pairs)] ==
            IF i = 0 THEN <<>>
            ELSE IF Find(F[i - 1], pairs[i].key) > 0
                 THEN [F[i - 1] EXCEPT ![Find(F[i - 1], pairs[i].key)].ref =
                                           pairs[i].ref]
                 ELSE Append(F[i - 1], pairs[i])
    IN  F[Len(pairs)]

\* list(self.donors)
KeysOf(donors) == [i \in 1..Len(donors) |-> donors[i].key]

\* `self.factor = float(factor)`
SetFactor(w, c, factor) == [w EXCEPT !.colls[c].factor = factor]

\* SetWindow gone wrong: floor is set only when min_donation is not 0.0
SetWindowIfGiven(w, c, min_donation, max_donation) ==
    [w EXCEPT !.colls[c].floor = IF min_donation = Money(0) THEN @ ELSE min_donation,
              !.colls[c].ceiling = max_donation]

\* `self.floor = float(min_donation)`, `self.ceiling = float(max_donation)`
SetWindow(w, c, min_donation, max_donation) ==
    [w EXCEPT !.colls[c].floor = min_donation, !.colls[c].ceiling = max_donation]

\* DonorCollection.projector: factor in tenths, min_donation and max_donation
\* as Money.  xs is the dict returned.
Projector(w, c, factor, min_donation, max_donation) ==
    IF factor <= 0
    THEN [w |-> SetFactor(w, c, factor), err |-> "ValueError", xs |-> <<>>]
    ELSE MapMultiply(
             MapFilter(
                 MapEntries([w |-> SetWindow(SetFactor(w, c, factor), c,
                                             min_donation, max_donation),
                             err |-> "", xs |-> <<>>],
                            c, KeysOf(w.colls[c].donors)),
                 c),
             c)

\* `new_coll.donors = ...; return new_coll`, p being what projector gave: the
\* new collection is the last of colls
Projected(p) ==
    IF p.err # "" THEN [w |-> p.w, err |-> p.err, ret |-> 0]
    ELSE [w |-> [p.w EXCEPT !.colls =
                     Append(@, [NewCollection EXCEPT !.donors = DictOf(p.xs)])],
          err |-> "",
          ret |-> Len(p.w.colls) + 1]

\* DonorCollection.challenge
Challenge(w, c, factor, min_donation, max_donation) ==
    Projected(Projector(w, c, factor, min_donation, max_donation))

----------------------------------------------------------------------------
(* The file system used by save_letters: fs = [cwd, dirs, files] *)

\* os.mkdir(path)
Mkdir(fs, path) ==
    IF path \in fs.dirs THEN [fs |-> fs, err |-> "FileExistsError"]
    ELSE IF SubSeq(path, 1, Len(path) - 1) \notin fs.dirs
         THEN [fs |-> fs, err |-> "FileNotFoundError"]
         ELSE [fs |-> [fs EXCEPT !.dirs = @ \cup {path}], err |-> ""]

\* os.chdir(path)
Chdir(fs, path) ==
    IF path \notin fs.dirs THEN [fs |-> fs, err |-> "FileNotFoundError"]
    ELSE [fs |-> [fs EXCEPT !.cwd = path], err |-> ""]

\* the dict `letters`: file name (the key stands for _<key>.txt) and text
Letters(w, c) ==
    [i \in 1..Len(w.colls[c].donors) |->
        [file |-> w.colls[c].donors[i].key,
         text |-> FormLetter(w, w.colls[c].donors[i].ref).text]]

\* the writing loop of save_letters: each letter goes to its file in the
\* working directory, replacing a file of that name
WriteLetters(fs, letters) ==
    [fs EXCEPT !.files =
        {f \in @ : ~(f.dir = fs.cwd
                       /\ \E i \in 1..Len(letters) : f.file = letters[i].file)}
            \cup {[dir |-> fs.cwd, file |-> letters[i].file,
                   text |-> letters[i].text] : i \in 1..Len(letters)}]

\* the finally block of save_letters, moved being what os.chdir(folder) gave.
\* writable: whether open(filename, 'w') succeeds in the folder.
SaveInFolder(w, c, cur_dir, moved, writable) ==
    IF moved.err # "" THEN [fs |-> moved.fs, err |-> moved.err, ret |-> <<>>]
    ELSE IF \E i \in 1..Len(w.colls[c].donors) :
                FormLetter(w, w.colls[c].donors[i].ref).err # ""
         THEN [fs |-> moved.fs, err |-> "IndexError", ret |-> <<>>]
         ELSE IF w.colls[c].donors # <<>> /\ ~writable
              THEN [fs |-> moved.fs, err |-> "OSError", ret |-> <<>>]
              ELSE [fs |-> Chdir(WriteLetters(moved.fs, Letters(w, c)), cur_dir).fs,
                    err |-> "", ret |-> moved.fs.cwd]

\* folder resolved against the working directory; "" stands for cur_dir
Target(fs, folder) == IF folder = <<>> THEN fs.cwd ELSE fs.cwd \o folder

\* DonorCollection.save_letters
SaveLetters(w, fs, c, folder, writable) ==
    SaveInFolder(w, c, fs.cwd,
                 Chdir(Mkdir(fs, Target(fs, folder)).fs, Target(fs, folder)),
                 writable)

----------------------------------------------------------------------------
(* State *)

World == [colls |-> colls, objs |-> objs, lists |-> lists]

NoCall ==
    [op |-> "none", c |-> 0, name |-> <<>>, str |-> TRUE, amount |-> Num(0),
     factor |-> 0, lo |-> Money(0), hi |-> Money(0), err |-> "", ret |-> 0,
     path |-> <<>>]

\* The arguments the caller draws from.
Names == {<<" ">>, <<"a">>, <<" ", "a", " ">>, <<"b">>}

Amounts ==
    {Num(4), Num(20), Lst(<<Num(5), Lst(<<Num(20)>>)>>), Lst(<<Num(20), Num(4)>>)}

\* <<factor, min_donation, max_donation>>
ChallengeArgs ==
    {<<0, Money(0), DefaultCeiling>>, <<1, Money(0), DefaultCeiling>>,
     <<10, Money(0), DefaultCeiling>>, <<20, Money(0), DefaultCeiling>>,
     <<20, Money(20), DefaultCeiling>>, <<20, Money(0), Money(10)>>,
     <<10, Money(0), Money(10)>>}

Keys ==
    {[str |-> TRUE, s |-> <<" ", "a", " ">>], [str |-> TRUE, s |-> <<"b">>],
     [str |-> FALSE, s |-> <<>>]}

\* <<folder, whether the folder can be written to>>; a folder is a relative
\* path, <<>> being ""
LetterArgs ==
    {<<<<>>, TRUE>>, <<<<"out">>, TRUE>>, <<<<"out">>, FALSE>>,
     <<<<"x", "y">>, TRUE>>}

Init ==
    /\ colls = <<NewCollection>>
    /\ objs = <<>>
    /\ lists = <<>>
    /\ cwd = <<>>
    /\ dirs = {<<>>}
    /\ files = {}
    /\ last = NoCall
    /\ calls = 0

FileSystem == [cwd |-> cwd, dirs |-> dirs, files |-> files]

\* the heap after a call that gave r, and the record of the call
Commit(r, call) ==
    /\ colls' = r.w.colls
    /\ objs' = r.w.objs
    /\ lists' = r.w.lists
    /\ last' = [call EXCEPT !.err = r.err, !.ret = r.ret]
    /\ calls' = calls + 1

Add(c, name, amount) ==
    /\ calls < MaxCalls
    /\ Commit(CollectionAdd(World, c, name, amount),
              [NoCall EXCEPT !.op = "add", !.c = c, !.name = name,
                             !.amount = amount])
    /\ UNCHANGED <<cwd, dirs, files>>

DoChallenge(c, factor, lo, hi) ==
    /\ calls < MaxCalls
    /\ Commit(Challenge(World, c, factor, lo, hi),
              [NoCall EXCEPT !.op = "challenge", !.c = c, !.factor = factor,
                             !.lo = lo, !.hi = hi])
    /\ UNCHANGED <<cwd, dirs, files>>

Lookup(c, key) ==
    /\ calls < MaxCalls
    /\ Commit([w |-> World] @@ GetItem(World, c, key),
              [NoCall EXCEPT !.op = "lookup", !.c = c, !.name = key.s,
                             !.str = key.str])
    /\ UNCHANGED <<cwd, dirs, files>>

\* the file system after save_letters gave r
CommitFiles(r, call) ==
    /\ cwd' = r.fs.cwd
    /\ dirs' = r.fs.dirs
    /\ files' = r.fs.files
    /\ last' = [call EXCEPT !.err = r.err, !.path = r.ret]
    /\ calls' = calls + 1

DoSaveLetters(c, folder, writable) ==
    /\ calls < MaxCalls
    /\ CommitFiles(SaveLetters(World, FileSystem, c, folder, writable),
                   [NoCall EXCEPT !.op = "save_letters", !.c = c,
                                  !.name = folder])
    /\ UNCHANGED <<colls, objs, lists>>

Next ==
    \/ \E c \in 1..Len(colls), name \in Names, amount \in Amounts :
           Add(c, name, amount)
    \/ \E c \in 1..Len(colls), a \in ChallengeArgs :
           DoChallenge(c, a[1], a[2], a[3])
    \/ \E c \in 1..Len(colls), key \in Keys :
           Lookup(c, key)
    \/ \E c \in 1..Len(colls), a \in LetterArgs :
           DoSaveLetters(c, a[1], a[2])

Spec == Init /\ [][Next]_vars

----------------------------------------------------------------------------
(* Properties *)

\* the donors of collection c as the caller sees them: key, name and
\* donations of each, in dict order
View(w, c) ==
    [i \in 1..Len(w.colls[c].donors) |->
        [key |-> w.colls[c].donors[i].key,
         name |-> w.objs[w.colls[c].donors[i].ref].name,
         donations |-> Donations(w, w.colls[c].donors[i].ref)]]

\* this step is a call of op
Called(op) == calls' = calls + 1 /\ last'.op = op

\* the gifts v of donations with lo <= v <= hi, in order, each times factor
\* and rounded to cents
ScaledKept(donations, factor, lo, hi) ==
    LET inside(v) == Leq(lo, Money(v)) /\ Leq(Money(v), hi)
        kept == SelectSeq(donations, inside)
    IN  [i \in 1..Len(kept) |-> Round2(kept[i] * factor)]

\* C1: a successful challenge returns a collection in which each donor holds
\* exactly the original donor's gifts v with min_donation <= v <= max_donation
\* (tested on v before scaling, both bounds inclusive), in their order, each
\* replaced by v * factor rounded to 2 places; the others are dropped.
C1_ChallengeFiltersThenScales ==
    [][(Called("challenge") /\ last'.err = "") =>
          /\ Len(View(World', last'.ret)) = Len(View(World, last'.c))
          /\ \A i \in 1..Len(View(World, last'.c)) :
                View(World', last'.ret)[i].donations =
                    ScaledKept(View(World, last'.c)[i].donations,
                               last'.factor, last'.lo, last'.hi)]_vars

\* a challenge by 2.0 with max_donation 0.01 has turned [0.01, 0.02] into [0.02]
C1_Witness ==
    /\ last.op = "challenge" /\ last.err = ""
    /\ last.factor = 20 /\ last.hi = Money(10)
    /\ \E i \in 1..Len(View(World, last.c)) :
          /\ View(World, last.c)[i].donations = <<10, 20>>
          /\ View(World, last.ret)[i].donations = <<20>>

\* C2: a successful challenge leaves the original collection as it was: the
\* same keys in the same order, each donor's name and donations unchanged.
C2_ChallengeLeavesOriginal ==
    [][(Called("challenge") /\ last'.err = "") =>
          View(World', last'.c) = View(World, last'.c)]_vars

\* a challenge has returned donations that differ from the original's
C2_Witness ==
    /\ last.op = "challenge" /\ last.err = ""
    /\ View(World, last.c) # <<>>
    /\ \A i \in 1..Len(View(World, last.c)) :
          /\ View(World, last.c)[i].donations # <<>>
          /\ View(World, last.ret)[i].donations # View(World, last.c)[i].donations

\* no Donor object and no list object is reached from two collections
NoSharing(w) ==
    \A i, j \in 1..Len(w.colls) :
        i # j =>
            \A a \in 1..Len(w.colls[i].donors), b \in 1..Len(w.colls[j].donors) :
                /\ w.colls[i].donors[a].ref # w.colls[j].donors[b].ref
                /\ w.objs[w.colls[i].donors[a].ref].donations #
                       w.objs[w.colls[j].donors[b].ref].donations

\* C3: a collection returned by challenge shares no Donor object and no
\* donations list with the original, so an add on one collection changes no
\* donor and no donations of any other collection.
C3_CollectionsIndependent ==
    [][/\ NoSharing(World')
       /\ Called("add") =>
             \A j \in 1..Len(colls) :
                 j # last'.c => View(World', j) = View(World, j)]_vars

\* an add has lengthened a donor's list in one collection while another
\* collection still holds the same donor with the shorter list, as after a
\* challenge by 1.0 that filtered nothing
C3_Witness ==
    /\ last.op = "add" /\ last.err = ""
    /\ \E j \in 1..Len(colls) :
          /\ j # last.c
          /\ View(World, j) # <<>>
          /\ Len(View(World, j)) = Len(View(World, last.c))
          /\ \A i \in 1..Len(View(World, j)) :
                /\ View(World, j)[i].key = View(World, last.c)[i].key
                /\ Len(View(World, j)[i].donations) <
                       Len(View(World, last.c)[i].donations)
                /\ View(World, j)[i].donations =
                       SubSeq(View(World, last.c)[i].donations, 1,
                              Len(View(World, j)[i].donations))

\* C4: in every collection every amount is at least 0.01 and a whole number of
\* cents.
C4_AmountsAtLeastOneCent ==
    \A c \in 1..Len(colls) :
        \A i \in 1..Len(View(World, c)) :
            \A k \in 1..Len(View(World, c)[i].donations) :
                /\ View(World, c)[i].donations[k] >= 10
                /\ View(World, c)[i].donations[k] % 10 = 0

\* C5: a successful challenge returns the original's donor names in the
\* original's order, and a donor all of whose gifts fall outside the window is
\* still there, with no gift at all.
C5_ChallengeKeepsEveryDonor ==
    [][(Called("challenge") /\ last'.err = "") =>
          /\ KeysOf(colls'[last'.ret].donors) = KeysOf(colls[last'.c].donors)
          /\ \A i \in 1..Len(View(World, last'.c)) :
                /\ View(World', last'.ret)[i].name = View(World, last'.c)[i].name
                /\ ScaledKept(View(World, last'.c)[i].donations, DefaultFactor,
                              last'.lo, last'.hi) = <<>>
                      => View(World', last'.ret)[i].donations = <<>>]_vars

\* a challenge has returned two donors, the first with no gift left, the
\* second with some
C5_Witness ==
    /\ last.op = "challenge" /\ last.err = ""
    /\ Len(View(World, last.ret)) = 2
    /\ View(World, last.c)[1].donations # <<>>
    /\ View(World, last.ret)[1].donations = <<>>
    /\ View(World, last.ret)[2].donations # <<>>

\* C6: save_letters leaves the working directory as it found it, whether it
\* returns or raises.
C6_WorkingDirectoryRestored ==
    [][Called("save_letters") => cwd' = cwd]_vars

\* add(name, a) for each a of items in order; a raise ends the calls
IndividualAdds(w, c, name, items) ==
    LET F[i \in 0..Len(items)] ==
            IF i = 0 THEN [w |-> w, err |-> "", ret |-> 0]
            ELSE IF F[i - 1].err # "" THEN F[i - 1]
            ELSE CollectionAdd(F[i - 1].w, c, name, items[i])
    IN  F[Len(items)]

\* no number below 0.005 anywhere in the amount
RECURSIVE AllValid(_)
AllValid(amount) ==
    IF amount.kind = "num" THEN amount.v >= MinAmount
    ELSE \A i \in 1..Len(amount.items) : AllValid(amount.items[i])

KeysWellFormed(w) ==
    \A c \in 1..Len(w.colls) :
        \A i \in 1..Len(w.colls[c].donors) :
            /\ w.colls[c].donors[i].key # <<>>
            /\ Strip(w.colls[c].donors[i].key) = w.colls[c].donors[i].key
            /\ w.objs[w.colls[c].donors[i].ref].name = w.colls[c].donors[i].key
            /\ \A j \in 1..Len(w.colls[c].donors) :
                  j # i => w.colls[c].donors[j].key # w.colls[c].donors[i].key

\* C8: every key of donors is a non-blank trimmed name equal to its Donor's
\* name, one Donor per trimmed name; an add whose name trims to an existing
\* key appends to that donor and makes no entry; a lookup finds the Donor
\* whose name is the trimmed key.
C8_OneDonorPerTrimmedName ==
    [][/\ KeysWellFormed(World')
       /\ (/\ Called("add") /\ last'.err = ""
           /\ Find(colls[last'.c].donors, Strip(last'.name)) > 0) =>
             /\ KeysOf(colls'[last'.c].donors) = KeysOf(colls[last'.c].donors)
             /\ Gifts(World', DonorAt(World, last'.c, Strip(last'.name))) >
                    Gifts(World, DonorAt(World, last'.c, Strip(last'.name)))
       /\ (Called("lookup") /\ last'.err = "") =>
             /\ objs[last'.ret].name = Strip(last'.name)
             /\ \E i \in 1..Len(colls[last'.c].donors) :
                   colls[last'.c].donors[i].ref = last'.ret]_vars

\* add(" a ", 0.02) has appended to the one donor "a", who had gifts before
C8_Witness ==
    /\ last.op = "add" /\ last.err = ""
    /\ last.name = <<" ", "a", " ">> /\ last.amount = Num(20)
    /\ KeysOf(colls[last.c].donors) = << <<"a">> >>
    /\ Len(View(World, last.c)[1].donations) >= 2

\* the heap with factor, floor and ceiling of every collection set back to
\* what __init__ gives
ResetParams(w) ==
    [w EXCEPT !.colls = [i \in 1..Len(w.colls) |->
                            [w.colls[i] EXCEPT !.factor = DefaultFactor,
                                               !.floor = DefaultFloor,
                                               !.ceiling = DefaultCeiling]]]

\* what the caller gets from a call on collection c that gave r: the error,
\* the donors of c, and the donors of the collection returned
Outcome(r, c) ==
    [err |-> r.err,
     donors |-> View(r.w, c),
     returned |-> IF r.ret = 0 THEN <<>> ELSE View(r.w, r.ret)]

\* what the caller got from the call this step made
OutcomeHere ==
    [err |-> last'.err,
     donors |-> View(World', last'.c),
     returned |-> IF last'.ret = 0 THEN <<>> ELSE View(World', last'.ret)]

\* C9: the factor, floor and ceiling a collection holds from earlier
\* challenges, failed ones included, do not bear on what a challenge, an add
\* or a lookup gives: it is what the same call gives with the defaults held
\* instead; and a collection just returned by challenge holds the defaults.
C9_ParametersAreTransient ==
    [][/\ Called("challenge") =>
             /\ OutcomeHere =
                    Outcome(Challenge(ResetParams(World), last'.c, last'.factor,
                                      last'.lo, last'.hi), last'.c)
             /\ last'.err = "" =>
                    /\ colls'[last'.ret].factor = DefaultFactor
                    /\ colls'[last'.ret].floor = DefaultFloor
                    /\ colls'[last'.ret].ceiling = DefaultCeiling
       /\ Called("add") =>
             OutcomeHere =
                 Outcome(CollectionAdd(ResetParams(World), last'.c, last'.name,
                                       last'.amount), last'.c)
       /\ Called("lookup") =>
             [err |-> last'.err, ret |-> last'.ret] =
                 GetItem(ResetParams(World), last'.c,
                         [str |-> last'.str, s |-> last'.name])]_vars

\* three calls: an add, a challenge whose window dropped the donor's gifts,
\* then a challenge of the same collection with the default window, which
\* kept them
C9_Witness ==
    /\ calls = 3 /\ Len(colls) = 3
    /\ last.op = "challenge" /\ last.err = "" /\ last.c = 1 /\ last.ret = 3
    /\ last.lo = DefaultFloor /\ last.hi = DefaultCeiling
    /\ Len(View(World, 1)) = 1
    /\ View(World, 1)[1].donations # <<>>
    /\ View(World, 2)[1].donations = <<>>
    /\ Len(View(World, 3)[1].donations) = Len(View(World, 1)[1].donations)

\* C10: an add or a challenge that raises leaves every collection's donor
\* names and every donor's donations as they were.
C10_FailedCallChangesNothing ==
    [][((Called("add") \/ Called("challenge")) /\ last'.err # "") =>
          \A c \in 1..Len(colls) : View(World', c) = View(World, c)]_vars

====
